---- MODULE Spec2Model ----
(***************************************************************************)
(* Command buffer lifecycle (command/src/buffer.rs) and the two command    *)
(* pools (command/src/pool.rs) of rendy.                                   *)
(*                                                                         *)
(* The Rust type parameters of Buffer<C, S, L, R>, Pool<C, R> and          *)
(* OwningPool<C, L> are carried as data: a method of an impl block is      *)
(* applicable to a value exactly when the value's markers match the impl   *)
(* header.  Every method consumes its receiver and returns a new value;    *)
(* the values the caller holds are the slots of bufs, pool and opool.      *)
(***************************************************************************)
EXTENDS Integers, Sequences, FiniteSets

\* ---------------------------------------------------------------- bounds
\* live Buffer values the caller holds at once
MaxBufs == 1
\* command buffer handles the device hands out in one behaviour
MaxHandles == 3
\* largest count passed to reserve / allocate_buffers
MaxCount == 2

VARIABLES
    pool,      \* a Pool<C, R>
    opool,     \* an OwningPool<C, L>
    bufs,      \* the Buffer values held by the caller, by slot
    device,    \* the device: handles allocated, device-side state of each
    last,      \* the last operation: receiver, result, native calls issued
    track,     \* per slot: what happened to the Buffer value held there
    plog       \* owning pool: handles acquired, allocate calls, buffers
               \* held across a reset

vars == <<pool, opool, bufs, device, last, track, plog>>

\* the slots the caller has for Buffer values
Slots == DOMAIN bufs

\* ------------------------------------------------------- markers (buffer.rs)
PrimaryLevel == "PrimaryLevel"
SecondaryLevel == "SecondaryLevel"
Levels == {PrimaryLevel, SecondaryLevel}

\* Level::level
Level_level(l) == IF l = PrimaryLevel THEN "PRIMARY" ELSE "SECONDARY"

IndividualReset == "IndividualReset"
NoIndividualReset == "NoIndividualReset"
ResetPolicies == {IndividualReset, NoIndividualReset}

\* Reset::flags
Reset_flags(r) == IF r = IndividualReset THEN {"RESET_COMMAND_BUFFER"} ELSE {}

NoUsage == [kind |-> "-", sub |-> "-"]
OneShot == [kind |-> "OneShot", sub |-> "-"]
MultiShot(S) == [kind |-> "MultiShot", sub |-> S]
SimultaneousUse == "SimultaneousUse"
\* the types that implement Usage
Usages == {OneShot, MultiShot("()"), MultiShot(SimultaneousUse)}

\* variant: MultiShot gives no flag whatever its parameter
Usage_flags_MultiShotPlain(u) ==
    IF u = OneShot THEN {"ONE_TIME_SUBMIT"} ELSE {}

\* Usage::flags
Usage_flags(u) ==
    IF u = OneShot THEN {"ONE_TIME_SUBMIT"}
    ELSE IF u = MultiShot(SimultaneousUse) THEN {"SIMULTANEOUS_USE"}
    ELSE {}

\* ------------------------------------------------------- states (buffer.rs)
\* PendingState<N> wraps the state N the buffer returns to: inner/usage are N's
InitialState == [tag |-> "Initial", inner |-> "-", usage |-> NoUsage]
RecordingState(u) == [tag |-> "Recording", inner |-> "-", usage |-> u]
ExecutableState(u) == [tag |-> "Executable", inner |-> "-", usage |-> u]
InvalidState == [tag |-> "Invalid", inner |-> "-", usage |-> NoUsage]
NoState == [tag |-> "-", inner |-> "-", usage |-> NoUsage]
PendingState(n) == [tag |-> "Pending", inner |-> n.tag, usage |-> n.usage]
\* the pattern |PendingState(state)| state
PendingInner(s) == [tag |-> s.inner, inner |-> "-", usage |-> s.usage]

\* variant: PendingState counted among the resettable states
Resettable_WithPending(s) ==
    s.tag \in {"Initial", "Recording", "Executable", "Invalid", "Pending"}

\* impl Resettable for InitialState, RecordingState<U>, ExecutableState<U>, InvalidState
Resettable(s) == s.tag \in {"Initial", "Recording", "Executable", "Invalid"}

\* ------------------------------------------------------------ capabilities
QueueFlagBits == {"GRAPHICS", "COMPUTE"}
QueueFlags(f) == [ty |-> "QueueFlags", flags |-> f]
Marker(m) == [ty |-> m, flags |-> {}]
Markers == {"Compute", "General"}
CapabilityTypes == Markers \cup {"QueueFlags"}
MarkerFlags(m) ==
    IF m = "Compute" THEN {"COMPUTE"} ELSE {"GRAPHICS", "COMPUTE"}

\* Capability::from_flags: Some(capability) iff the marker's set is within flags
Capability_from_flags(C, cap) ==
    IF C = "QueueFlags" THEN [some |-> TRUE, capability |-> cap]
    ELSE IF MarkerFlags(C) \subseteq cap.flags
         THEN [some |-> TRUE, capability |-> Marker(C)]
         ELSE [some |-> FALSE, capability |-> cap]

\* ------------------------------------------------------------ native calls
NoCapability == [ty |-> "-", flags |-> {}]

Call(fn, p, b, lvl, n, fl, hs) ==
    [fn |-> fn, pool |-> p, buffer |-> b, level |-> lvl, count |-> n,
     flags |-> fl, handles |-> hs]

begin_command_buffer(raw, flags) ==
    Call("begin_command_buffer", 0, raw, "-", 0, flags, <<>>)
end_command_buffer(raw) ==
    Call("end_command_buffer", 0, raw, "-", 0, {}, <<>>)
allocate_command_buffers(p, lvl, n, hs) ==
    Call("allocate_command_buffers", p, 0, lvl, n, {}, hs)
free_command_buffers(p, hs) ==
    Call("free_command_buffers", p, 0, "-", 0, {}, hs)
reset_command_pool(p) ==
    Call("reset_command_pool", p, 0, "-", 0, {}, <<>>)
destroy_command_pool(p) ==
    Call("destroy_command_pool", p, 0, "-", 0, {}, <<>>)

\* the handles the device returns for a request of n buffers: n new handles
DeviceAllocate(dev, n) == [i \in 1..n |-> dev.fresh + i]

\* the device-side record of a command buffer handle: the command pool it was
\* allocated from and its state
NativeBuffer(p, state) == [pool |-> p, state |-> state]

\* the effect of one native call on the device-side state of the handles;
\* a handle that was freed stays freed
Device_execute(dev, call) ==
    LET set(h, st) == IF dev.state[h].state = "Freed" THEN dev.state[h]
                      ELSE NativeBuffer(dev.state[h].pool, st)
        all(p, st) == [h \in 1..Len(dev.state) |->
                         IF dev.state[h].pool = p THEN set(h, st)
                         ELSE dev.state[h]]
    IN  IF call.fn = "allocate_command_buffers"
        THEN [dev EXCEPT !.state =
                 @ \o [i \in 1..Len(call.handles) |->
                         NativeBuffer(call.pool, "Initial")]]
        ELSE IF call.fn = "begin_command_buffer"
        THEN [dev EXCEPT !.state[call.buffer] = set(call.buffer, "Recording")]
        ELSE IF call.fn = "end_command_buffer"
        THEN [dev EXCEPT !.state[call.buffer] = set(call.buffer, "Executable")]
        ELSE IF call.fn = "reset_command_pool"
        THEN [dev EXCEPT !.state = all(call.pool, "Initial")]
        ELSE IF call.fn = "destroy_command_pool"
        THEN [dev EXCEPT !.state = all(call.pool, "Freed")]
        ELSE [dev EXCEPT !.state =
                 [h \in 1..Len(dev.state) |->
                    IF \E k \in 1..Len(call.handles) : call.handles[k] = h
                    THEN set(h, "Freed") ELSE dev.state[h]]]

\* the native calls of one operation, in the order they are issued; the
\* device-side states are followed only where the device is observed
RECURSIVE Device_run(_, _)
Device_run(dev, calls) ==
    IF calls = <<>> \/ ~dev.observed THEN dev
    ELSE Device_run(Device_execute(dev, Head(calls)), Tail(calls))

\* ------------------------------------------------------------------ Buffer
\* Buffer::from_raw
Buffer_from_raw(raw, capability, state, level, reset, family) ==
    [raw |-> raw, capability |-> capability, state |-> state, level |-> level,
     reset |-> reset, family |-> family, relevant |-> TRUE]

\* an empty slot
NoBuf ==
    [raw |-> 0, capability |-> NoCapability, state |-> NoState, level |-> "-",
     reset |-> "-", family |-> 0, relevant |-> FALSE]

\* variant: the family is not carried over
change_state_DropsFamily(self, state) ==
    [raw |-> self.raw, capability |-> self.capability, state |-> state,
     level |-> self.level, reset |-> self.reset, family |-> 0,
     relevant |-> self.relevant]

\* Buffer::change_state, with f(self.state) already evaluated
change_state(self, state) ==
    [raw |-> self.raw, capability |-> self.capability, state |-> state,
     level |-> self.level, reset |-> self.reset, family |-> self.family,
     relevant |-> self.relevant]

\* Submit { raw, family }
SubmitOf(buffer) == [raw |-> buffer.raw, family |-> buffer.family]
NoSubmit == [raw |-> 0, family |-> 0]

\* impl<C, R> Buffer<C, InitialState, PrimaryLevel, R>
CanBegin(b) == b.relevant /\ b.state.tag = "Initial" /\ b.level = PrimaryLevel
\* impl<C, U, R> Buffer<C, RecordingState<U>, PrimaryLevel, R>, U: Usage
CanFinish(b) ==
    b.relevant /\ b.state.tag = "Recording" /\ b.level = PrimaryLevel
    /\ b.state.usage \in Usages
\* impl<C, R> Buffer<C, ExecutableState<OneShot>, PrimaryLevel, R>
CanSubmitOnce(b) ==
    b.relevant /\ b.state = ExecutableState(OneShot) /\ b.level = PrimaryLevel
\* variant: submit() offered while the buffer is still recording
CanSubmit_WhileRecording(b) ==
    b.relevant /\ b.state.tag \in {"Recording", "Executable"}
    /\ b.state.usage.kind = "MultiShot" /\ b.level = PrimaryLevel
\* impl<C, S, R> Buffer<C, ExecutableState<MultiShot<S>>, PrimaryLevel, R>
CanSubmit(b) ==
    b.relevant /\ b.state.tag = "Executable" /\ b.state.usage.kind = "MultiShot"
    /\ b.level = PrimaryLevel
\* impl<C, N, L, R> Buffer<C, PendingState<N>, L, R>
CanComplete(b) == b.relevant /\ b.state.tag = "Pending"
CanRelease(b) == b.relevant /\ b.state.tag = "Pending"
\* variant: reset() offered under either reset policy
CanReset_AnyPolicy(b) == b.relevant /\ Resettable(b.state)

\* impl<C, S, L> Buffer<C, S, L, IndividualReset> where S: Resettable
CanReset(b) == b.relevant /\ b.reset = IndividualReset /\ Resettable(b.state)
\* impl<C, S, L> Buffer<C, S, L> where S: Resettable; R is the default parameter
CanMarkReset(b) ==
    b.relevant /\ b.reset = NoIndividualReset /\ Resettable(b.state)

\* Buffer::begin
Buffer_begin(self, usage) ==
    [calls |-> <<begin_command_buffer(self.raw, Usage_flags(usage))>>,
     buffer |-> change_state(self, RecordingState(usage))]

\* variant: the usage recorded by begin is not carried into ExecutableState
Buffer_finish_LosesUsage(self) ==
    [calls |-> <<end_command_buffer(self.raw)>>,
     buffer |-> change_state(self, ExecutableState(OneShot))]

\* Buffer::finish
Buffer_finish(self) ==
    [calls |-> <<end_command_buffer(self.raw)>>,
     buffer |-> change_state(self, ExecutableState(self.state.usage))]

\* variant: the one-shot buffer returns to its executable state
Buffer_submit_once_KeepsState(self) ==
    LET buffer == change_state(self, PendingState(self.state))
    IN  [submit |-> SubmitOf(buffer), buffer |-> buffer]

\* Buffer::submit_once
Buffer_submit_once(self) ==
    LET buffer == change_state(self, PendingState(InvalidState))
    IN  [submit |-> SubmitOf(buffer), buffer |-> buffer]

\* Buffer::submit
Buffer_submit(self) ==
    LET buffer == change_state(self, PendingState(self.state))
    IN  [submit |-> SubmitOf(buffer), buffer |-> buffer]

\* variant: completion invalidates the buffer whatever it was to return to
Buffer_complete_Invalidates(self) == change_state(self, InvalidState)

\* Buffer::complete
Buffer_complete(self) == change_state(self, PendingInner(self.state))

\* Buffer::reset
Buffer_reset(self) == change_state(self, InitialState)

\* Buffer::mark_reset
Buffer_mark_reset(self) == change_state(self, InitialState)

\* Buffer::into_raw
Buffer_into_raw(self) == [raw |-> self.raw, relevant |-> FALSE]

\* -------------------------------------------------------------------- Pool
\* Pool::from_raw
Pool_from_raw(raw, capability, reset, family) ==
    [raw |-> raw, capability |-> capability, reset |-> reset,
     family |-> family, relevant |-> TRUE]

\* variant: the buffers are wrapped as Primary whatever level was requested
Pool_allocate_buffers_AsPrimary(self, dev, level, count) ==
    LET buffers == DeviceAllocate(dev, count)
    IN  [calls |-> <<allocate_command_buffers(self.raw, Level_level(level),
                                              count, buffers)>>,
         buffers |-> [i \in 1..Len(buffers) |->
                        Buffer_from_raw(buffers[i], self.capability,
                                        InitialState, PrimaryLevel, self.reset,
                                        self.family)]]

\* Pool::allocate_buffers
Pool_allocate_buffers(self, dev, level, count) ==
    LET buffers == DeviceAllocate(dev, count)
    IN  [calls |-> <<allocate_command_buffers(self.raw, Level_level(level),
                                              count, buffers)>>,
         buffers |-> [i \in 1..Len(buffers) |->
                        Buffer_from_raw(buffers[i], self.capability,
                                        InitialState, level, self.reset,
                                        self.family)]]

\* Vec<Buffer<C, impl Resettable, impl Level, R>> for this Pool<C, R>
CanFree(self, b) ==
    /\ b.relevant
    /\ Resettable(b.state)
    /\ b.capability.ty = self.capability.ty
    /\ b.reset = self.reset

\* Pool::free_buffers: the handles are read with raw(), the Buffers are dropped
Pool_free_buffers(self, buffers) ==
    LET raws == [i \in 1..Len(buffers) |-> buffers[i].raw]
    IN  [calls |-> <<free_command_buffers(self.raw, raws)>>,
         dropped |-> [i \in 1..Len(buffers) |-> buffers[i].relevant]]

\* variant: the pool-wide reset is not issued
Pool_reset_Unissued(self) ==
    [calls |-> <<>>, pool |-> self]

\* Pool::reset
Pool_reset(self) ==
    [calls |-> <<reset_command_pool(self.raw)>>, pool |-> self]

\* Pool::dispose
Pool_dispose(self) ==
    [calls |-> <<destroy_command_pool(self.raw)>>,
     pool |-> [self EXCEPT !.relevant = FALSE]]

\* Pool::from_flags, impl<R> Pool<QueueFlags, R>
Pool_from_flags(self, C) ==
    LET r == Capability_from_flags(C, self.capability)
    IN  IF r.some
        THEN [ok |-> TRUE,
              pool |-> [raw |-> self.raw, capability |-> r.capability,
                        reset |-> self.reset, family |-> self.family,
                        relevant |-> self.relevant]]
        ELSE [ok |-> FALSE, pool |-> self]

\* -------------------------------------------------------------- OwningPool
\* OwningPool::from_inner
OwningPool_from_inner(inner, level) ==
    [inner |-> inner, level |-> level, buffers |-> <<>>, next |-> 0]

\* variant: the whole count is allocated whatever is still unused
OwningPool_reserve_WholeCount(self, dev, count) ==
    LET total == self.next + count
    IN  IF total >= Len(self.buffers)
        THEN LET add == count
                 got == DeviceAllocate(dev, add)
             IN  [calls |-> <<allocate_command_buffers(
                                 self.inner.raw, Level_level(self.level),
                                 add, got)>>,
                  pool |-> [self EXCEPT !.buffers = self.buffers \o got],
                  device |-> [dev EXCEPT !.fresh = dev.fresh + Len(got)]]
        ELSE [calls |-> <<>>, pool |-> self, device |-> dev]

\* OwningPool::reserve
OwningPool_reserve(self, dev, count) ==
    LET total == self.next + count
    IN  IF total >= Len(self.buffers)
        THEN LET add == total - Len(self.buffers)
                 got == DeviceAllocate(dev, add)
             IN  [calls |-> <<allocate_command_buffers(
                                 self.inner.raw, Level_level(self.level),
                                 add, got)>>,
                  pool |-> [self EXCEPT !.buffers = self.buffers \o got],
                  device |-> [dev EXCEPT !.fresh = dev.fresh + Len(got)]]
        ELSE [calls |-> <<>>, pool |-> self, device |-> dev]

\* variant: the cursor is left where it was
OwningPool_acquire_buffer_KeepsCursor(self, dev) ==
    LET r == OwningPool_reserve(self, dev, 1)
        p == r.pool
    IN  [calls |-> r.calls,
         pool |-> p,
         device |-> r.device,
         buffer |-> Buffer_from_raw(p.buffers[p.next + 1],
                                    p.inner.capability, InitialState, p.level,
                                    p.inner.reset, p.inner.family)]

\* variant: the handle at the head of the retained sequence is wrapped
OwningPool_acquire_buffer_Head(self, dev) ==
    LET r == OwningPool_reserve(self, dev, 1)
        p == [r.pool EXCEPT !.next = r.pool.next + 1]
    IN  [calls |-> r.calls,
         pool |-> p,
         device |-> r.device,
         buffer |-> Buffer_from_raw(p.buffers[1],
                                    p.inner.capability, InitialState, p.level,
                                    p.inner.reset, p.inner.family)]

\* OwningPool::acquire_buffer
OwningPool_acquire_buffer(self, dev) ==
    LET r == OwningPool_reserve(self, dev, 1)
        p == [r.pool EXCEPT !.next = r.pool.next + 1]
    IN  [calls |-> r.calls,
         pool |-> p,
         device |-> r.device,
         buffer |-> Buffer_from_raw(p.buffers[(p.next - 1) + 1],
                                    p.inner.capability, InitialState, p.level,
                                    p.inner.reset, p.inner.family)]

\* variant: the retained handles are dropped with the cursor
OwningPool_reset_Clears(self) ==
    LET r == Pool_reset(self.inner)
    IN  [calls |-> r.calls,
         pool |-> [self EXCEPT !.inner = r.pool, !.buffers = <<>>, !.next = 0]]

\* OwningPool::reset
OwningPool_reset(self) ==
    LET r == Pool_reset(self.inner)
    IN  [calls |-> r.calls,
         pool |-> [self EXCEPT !.inner = r.pool, !.next = 0]]

\* variant: the retained handles are freed once the pool is destroyed
OwningPool_dispose_FreesLast(self) ==
    LET r == OwningPool_reset(self)
        free == IF r.pool.buffers # <<>>
                THEN <<free_command_buffers(r.pool.inner.raw, r.pool.buffers)>>
                ELSE <<>>
        d == Pool_dispose(r.pool.inner)
    IN  [calls |-> r.calls \o d.calls \o free,
         pool |-> [r.pool EXCEPT !.inner = d.pool]]

\* OwningPool::dispose
OwningPool_dispose(self) ==
    LET r == OwningPool_reset(self)
        free == IF r.pool.buffers # <<>>
                THEN <<free_command_buffers(r.pool.inner.raw, r.pool.buffers)>>
                ELSE <<>>
        d == Pool_dispose(r.pool.inner)
    IN  [calls |-> r.calls \o free \o d.calls,
         pool |-> [r.pool EXCEPT !.inner = d.pool]]

\* variant: the failed downcast wraps the inner pool anew
OwningPool_from_flags_Rebuilds(self, C) ==
    LET r == Pool_from_flags(self.inner, C)
    IN  IF r.ok
        THEN [ok |-> TRUE,
              pool |-> [inner |-> r.pool, level |-> self.level,
                        buffers |-> self.buffers, next |-> self.next]]
        ELSE [ok |-> FALSE, pool |-> OwningPool_from_inner(r.pool, self.level)]

\* OwningPool::from_flags, impl<L> OwningPool<QueueFlags, L>
OwningPool_from_flags(self, C) ==
    LET r == Pool_from_flags(self.inner, C)
    IN  IF r.ok
        THEN [ok |-> TRUE,
              pool |-> [inner |-> r.pool, level |-> self.level,
                        buffers |-> self.buffers, next |-> self.next]]
        ELSE [ok |-> FALSE,
              pool |-> [inner |-> r.pool, level |-> self.level,
                        buffers |-> self.buffers, next |-> self.next]]

\* ------------------------------------------------------------------- state
\* what the last operation was and what it gave back besides the new values
Op(op, slot, submit, calls, ok, dropped) ==
    [op |-> op, slot |-> slot, submit |-> submit, calls |-> calls, ok |-> ok,
     dropped |-> dropped]

NoTrack ==
    [alloc |-> NoBuf, atBegin |-> NoBuf, usage |-> NoUsage, atSubmit |-> NoBuf,
     roundTrip |-> FALSE, once |-> "-", phase |-> "-"]

NoReserve == [n |-> -1, acquired |-> 0, allocs |-> 0]

FreeSlots == {i \in Slots : bufs[i] = NoBuf}
\* the j-th empty slot, lowest first
NthFree(j) == CHOOSE i \in FreeSlots : Cardinality({k \in FreeSlots : k < i}) = j - 1

Allocations(calls) ==
    Cardinality({i \in 1..Len(calls) : calls[i].fn = "allocate_command_buffers"})

\* the queue families pools are created for: their flags and family index
QueueFamilies ==
    {[flags |-> {"COMPUTE"}, family |-> 2], [flags |-> {"GRAPHICS"}, family |-> 1]}

\* the value left behind by dispose, and the pool a scenario does not have
NoPool ==
    [raw |-> 0, capability |-> NoCapability, reset |-> "-", family |-> 0,
     relevant |-> FALSE]

\* a device that has allocated no command buffer yet
DeviceInit == {[fresh |-> 0, state |-> <<>>, observed |-> o] : o \in BOOLEAN}

InitCommon ==
    /\ bufs = [i \in 1..MaxBufs |-> NoBuf]
    /\ device \in {d \in DeviceInit : ~d.observed}
    /\ last = Op("init", 0, NoSubmit, <<>>, TRUE, <<>>)
    /\ track = [i \in 1..MaxBufs |-> NoTrack]
    /\ plog = [epoch |-> <<>>, ever |-> <<>>, reserve |-> NoReserve,
               stale |-> {}]

\* a Pool wrapped from a raw command pool
InitPool ==
    /\ \E q \in QueueFamilies, r \in ResetPolicies :
          pool = Pool_from_raw(1, QueueFlags(q.flags), r, q.family)
    /\ opool = OwningPool_from_inner(NoPool, PrimaryLevel)
    /\ InitCommon

\* an OwningPool wrapped around a Pool<C>
InitOwning ==
    /\ pool = NoPool
    /\ \E q \in QueueFamilies, l \in Levels :
          opool = OwningPool_from_inner(
                      Pool_from_raw(2, QueueFlags(q.flags), NoIndividualReset,
                                    q.family), l)
    /\ InitCommon

\* a buffer operation on slot i that turns bufs[i] into b
\* track follows the buffers Pool::allocate_buffers returned
BufferStep(i, b, t, calls) ==
    /\ bufs' = [bufs EXCEPT ![i] = b]
    /\ track' = [track EXCEPT ![i] = IF @ = NoTrack THEN @ ELSE t]
    /\ plog' = [plog EXCEPT !.reserve = NoReserve,
                            !.stale = IF b = NoBuf THEN @ \ {i} ELSE @]
    /\ device' = Device_run(device, calls)
    /\ UNCHANGED <<pool, opool>>

\* ---------------------------------------------------------- buffer actions
Begin(i, usage) ==
    /\ CanBegin(bufs[i])
    /\ LET r == Buffer_begin(bufs[i], usage)
       IN  /\ BufferStep(i, r.buffer,
                [track[i] EXCEPT !.atBegin = bufs[i], !.usage = usage,
                                 !.atSubmit = NoBuf,
                                 !.once = IF @ = "reset" THEN "begun" ELSE @,
                                 !.phase = "begun"],
                r.calls)
           /\ last' = Op("begin", i, NoSubmit,
                         r.calls, TRUE, <<>>)

Finish(i) ==
    /\ CanFinish(bufs[i])
    /\ LET r == Buffer_finish(bufs[i])
       IN  /\ BufferStep(i, r.buffer,
                [track[i] EXCEPT !.once = IF @ = "begun" THEN "-" ELSE @,
                                 !.phase = IF @ = "begun" THEN "finished"
                                           ELSE @],
                r.calls)
           /\ last' = Op("finish", i, NoSubmit, r.calls, TRUE, <<>>)

SubmitOnce(i) ==
    /\ CanSubmitOnce(bufs[i])
    /\ LET r == Buffer_submit_once(bufs[i])
       IN  /\ BufferStep(i, r.buffer,
                [track[i] EXCEPT !.atBegin = NoBuf, !.atSubmit = bufs[i],
                                 !.once = "submitted"], <<>>)
           /\ last' = Op("submit_once", i, r.submit, <<>>, TRUE, <<>>)

Submit(i) ==
    /\ CanSubmit(bufs[i])
    /\ LET r == Buffer_submit(bufs[i])
       IN  /\ BufferStep(i, r.buffer,
                [track[i] EXCEPT !.atBegin = NoBuf, !.atSubmit = bufs[i]], <<>>)
           /\ last' = Op("submit", i, r.submit, <<>>, TRUE, <<>>)

Complete(i) ==
    /\ CanComplete(bufs[i])
    /\ LET b == Buffer_complete(bufs[i])
       IN  /\ BufferStep(i, b, [track[i] EXCEPT !.roundTrip = TRUE], <<>>)
           /\ last' = Op("complete", i, NoSubmit, <<>>, TRUE, <<>>)

\* Buffer::release: the token is discharged and the value is gone
Release(i) ==
    /\ CanRelease(bufs[i])
    /\ BufferStep(i, NoBuf, NoTrack, <<>>)
    /\ last' = Op("release", i, NoSubmit, <<>>, TRUE, <<>>)

AfterReset(t) ==
    [t EXCEPT !.atBegin = NoBuf, !.atSubmit = NoBuf, !.roundTrip = FALSE,
              !.once = IF @ \in {"submitted", "begun"} THEN "reset" ELSE @,
              !.phase = "initial"]

Reset(i) ==
    /\ CanReset(bufs[i])
    /\ LET b == Buffer_reset(bufs[i])
       IN  /\ BufferStep(i, b, AfterReset(track[i]), <<>>)
           /\ last' = Op("reset", i, NoSubmit, <<>>, TRUE, <<>>)

MarkReset(i) ==
    /\ CanMarkReset(bufs[i])
    /\ LET b == Buffer_mark_reset(bufs[i])
       IN  /\ BufferStep(i, b, AfterReset(track[i]), <<>>)
           /\ last' = Op("mark_reset", i, NoSubmit, <<>>, TRUE, <<>>)

\* ------------------------------------------------------------ pool actions
AllocateBuffers(level, count) ==
    /\ pool.relevant
    /\ count <= Cardinality(FreeSlots)
    /\ device.fresh + count <= MaxHandles
    /\ LET r == Pool_allocate_buffers(pool, device, level, count)
           n == Len(r.buffers)
           at == [j \in 1..n |-> NthFree(j)]
       IN  /\ bufs' = [i \in Slots |->
                         IF \E j \in 1..n : at[j] = i
                         THEN r.buffers[CHOOSE j \in 1..n : at[j] = i]
                         ELSE bufs[i]]
           /\ track' = [i \in Slots |->
                          IF \E j \in 1..n : at[j] = i
                          THEN [NoTrack EXCEPT !.alloc =
                                  [NoBuf EXCEPT
                                     !.raw = r.calls[1].handles[
                                                CHOOSE j \in 1..n : at[j] = i],
                                     !.family = pool.family],
                                  !.phase = "initial"]
                          ELSE track[i]]
           /\ device' = Device_run([device EXCEPT !.fresh = device.fresh + n],
                                    r.calls)
           /\ last' = Op("Pool::allocate_buffers", 0, NoSubmit, r.calls, TRUE, <<>>)
    /\ UNCHANGED <<pool, opool, plog>>

\* the slots of S in ascending order
RECURSIVE SlotSeq(_)
SlotSeq(S) ==
    IF S = {} THEN <<>>
    ELSE LET m == CHOOSE x \in S : \A y \in S : x <= y
         IN  <<m>> \o SlotSeq(S \ {m})

FreeBuffers(S) ==
    /\ pool.relevant
    /\ \A i \in S : CanFree(pool, bufs[i])
    /\ \A i, j \in S : /\ bufs[i].state = bufs[j].state
                       /\ bufs[i].level = bufs[j].level
    /\ LET order == SlotSeq(S)
           r == Pool_free_buffers(pool, [k \in 1..Len(order) |-> bufs[order[k]]])
       IN  /\ last' = Op("Pool::free_buffers", 0, NoSubmit, r.calls, TRUE,
                         r.dropped)
           /\ device' = Device_run(device, r.calls)
    /\ bufs' = [i \in Slots |-> IF i \in S THEN NoBuf ELSE bufs[i]]
    /\ track' = [i \in Slots |-> IF i \in S THEN NoTrack ELSE track[i]]
    /\ UNCHANGED <<pool, opool, plog>>

PoolReset ==
    /\ pool.relevant
    /\ LET r == Pool_reset(pool)
       IN  /\ pool' = r.pool
           /\ last' = Op("Pool::reset", 0, NoSubmit,
                         r.calls, TRUE, <<>>)
           /\ device' = Device_run(device, r.calls)
    /\ UNCHANGED <<opool, bufs, track, plog>>

PoolDispose ==
    /\ pool.relevant
    /\ LET r == Pool_dispose(pool)
       IN  /\ pool' = r.pool
           /\ last' = Op("Pool::dispose", 0, NoSubmit,
                         r.calls, TRUE, <<>>)
           /\ device' = Device_run(device, r.calls)
    /\ UNCHANGED <<opool, bufs, track, plog>>

PoolFromFlags(C) ==
    /\ pool.relevant
    /\ pool.capability.ty = "QueueFlags"
    /\ LET r == Pool_from_flags(pool, C)
       IN  /\ pool' = r.pool
           /\ last' = Op("Pool::from_flags", 0, NoSubmit, <<>>, r.ok, <<>>)
    /\ UNCHANGED <<opool, bufs, device, track, plog>>

\* ----------------------------------------------------- owning pool actions
Reserve(count) ==
    /\ opool.inner.relevant
    /\ LET r == OwningPool_reserve(opool, device, count)
       IN  /\ r.device.fresh <= MaxHandles
           /\ opool' = r.pool
           /\ device' = Device_run(r.device, r.calls)
           /\ plog' = [plog EXCEPT !.reserve =
                         [n |-> count, acquired |-> 0,
                          allocs |-> Allocations(r.calls)]]
           /\ last' = Op("OwningPool::reserve", 0, NoSubmit, r.calls, TRUE, <<>>)
    /\ UNCHANGED <<pool, bufs, track>>

AcquireBuffer ==
    /\ opool.inner.relevant
    /\ FreeSlots # {}
    /\ LET r == OwningPool_acquire_buffer(opool, device)
           i == NthFree(1)
       IN  /\ r.device.fresh <= MaxHandles
           /\ opool' = r.pool
           /\ device' = Device_run(r.device, r.calls)
           /\ bufs' = [bufs EXCEPT ![i] = r.buffer]
           /\ track' = [track EXCEPT ![i] = NoTrack]
           /\ plog' = [plog EXCEPT
                         !.epoch = Append(@, r.buffer.raw),
                         !.ever = IF Len(plog.epoch) < Len(@) THEN @
                                  ELSE Append(@, r.buffer.raw),
                         !.reserve =
                            IF @.n >= 0 /\ @.acquired < @.n
                            THEN [@ EXCEPT !.acquired = @ + 1,
                                           !.allocs = @ + Allocations(r.calls)]
                            ELSE NoReserve]
           /\ last' = Op("OwningPool::acquire_buffer", i, NoSubmit, r.calls, TRUE, <<>>)
    /\ UNCHANGED pool

OwningReset ==
    /\ opool.inner.relevant
    /\ LET r == OwningPool_reset(opool)
       IN  /\ opool' = r.pool
           /\ plog' = [plog EXCEPT !.epoch = <<>>, !.reserve = NoReserve,
                                   !.stale = {i \in Slots : bufs[i].relevant}]
           /\ last' = Op("OwningPool::reset", 0, NoSubmit, r.calls, TRUE, <<>>)
           /\ device' = Device_run(device, r.calls)
    /\ UNCHANGED <<pool, bufs, track>>

OwningDispose ==
    /\ opool.inner.relevant
    /\ LET r == OwningPool_dispose(opool)
       IN  /\ opool' = r.pool
           /\ plog' = [plog EXCEPT !.reserve = NoReserve]
           /\ last' = Op("OwningPool::dispose", 0, NoSubmit, r.calls, TRUE, <<>>)
           /\ device' = Device_run(device, r.calls)
    /\ UNCHANGED <<pool, bufs, track>>

OwningFromFlags(C) ==
    /\ opool.inner.relevant
    /\ opool.inner.capability.ty = "QueueFlags"
    /\ LET r == OwningPool_from_flags(opool, C)
       IN  /\ opool' = r.pool
           /\ plog' = [plog EXCEPT !.reserve = NoReserve]
           /\ last' = Op("OwningPool::from_flags", 0, NoSubmit, <<>>, r.ok, <<>>)
    /\ UNCHANGED <<pool, bufs, device, track>>

\* ------------------------------------------------------------ specification
BufferNext ==
    \/ \E i \in Slots, u \in Usages : Begin(i, u)
    \/ \E i \in Slots : Finish(i)
    \/ \E i \in Slots : SubmitOnce(i)
    \/ \E i \in Slots : Submit(i)
    \/ \E i \in Slots : Complete(i)
    \/ \E i \in Slots : Release(i)
    \/ \E i \in Slots : MarkReset(i)

\* a Pool and the buffers allocated from it
NextPool ==
    \/ BufferNext
    \/ \E i \in Slots : Reset(i)
    \/ \E l \in Levels, n \in 1..MaxCount : AllocateBuffers(l, n)
    \/ \E S \in (SUBSET Slots) \ {{}} : FreeBuffers(S)
    \/ PoolReset
    \/ PoolDispose

\* an OwningPool and the buffers acquired from it
NextOwning ==
    \/ BufferNext
    \/ \E n \in 0..MaxCount : Reserve(n)
    \/ AcquireBuffer
    \/ OwningReset
    \/ OwningDispose

SpecPool == InitPool /\ [][NextPool]_vars

\* a Pool, the buffers allocated from it, and the device-side state of their
\* native handles
InitNative ==
    /\ \E q \in QueueFamilies, r \in ResetPolicies :
          pool = Pool_from_raw(1, QueueFlags(q.flags), r, q.family)
    /\ opool = OwningPool_from_inner(NoPool, PrimaryLevel)
    /\ bufs = [i \in 1..MaxBufs |-> NoBuf]
    /\ device \in {d \in DeviceInit : d.observed}
    /\ last = Op("init", 0, NoSubmit, <<>>, TRUE, <<>>)
    /\ track = [i \in 1..MaxBufs |-> NoTrack]
    /\ plog = [epoch |-> <<>>, ever |-> <<>>, reserve |-> NoReserve,
               stale |-> {}]

SpecNative == InitNative /\ [][NextPool]_vars
SpecOwning == InitOwning /\ [][NextOwning]_vars

\* an OwningPool of Primary buffers whose caller holds up to two of them at
\* once
InitHeld ==
    /\ pool = NoPool
    /\ \E q \in QueueFamilies :
          opool = OwningPool_from_inner(
                      Pool_from_raw(2, QueueFlags(q.flags), NoIndividualReset,
                                    q.family), PrimaryLevel)
    /\ bufs = [i \in {1, 2} |-> NoBuf]
    /\ device \in {d \in DeviceInit : ~d.observed}
    /\ last = Op("init", 0, NoSubmit, <<>>, TRUE, <<>>)
    /\ track = [i \in {1, 2} |-> NoTrack]
    /\ plog = [epoch |-> <<>>, ever |-> <<>>, reserve |-> NoReserve,
               stale |-> {}]

SpecHeld == InitHeld /\ [][NextOwning]_vars

\* a Pool, an OwningPool, and their capability downcasts
InitDowncast ==
    /\ \E q \in QueueFamilies, r \in ResetPolicies :
          pool = Pool_from_raw(1, QueueFlags(q.flags), r, q.family)
    /\ \E q \in QueueFamilies, l \in Levels :
          opool = OwningPool_from_inner(
                      Pool_from_raw(2, QueueFlags(q.flags), NoIndividualReset,
                                    q.family), l)
    /\ InitCommon

NextDowncast ==
    \/ \E n \in 0..MaxCount : Reserve(n)
    \/ AcquireBuffer
    \/ OwningReset
    \/ \E C \in CapabilityTypes : PoolFromFlags(C)
    \/ \E C \in CapabilityTypes : OwningFromFlags(C)

SpecDowncast == InitDowncast /\ [][NextDowncast]_vars

\* ------------------------------------------------------------------ claims
ResettableTags == {"Initial", "Recording", "Executable", "Invalid"}
Live(i) == bufs[i].relevant
\* the buffer the last operation returned, and what is remembered of it
LastBuf == bufs[last.slot]
LastTrack == track[last.slot]

SameIdentity(a, b) ==
    /\ a.raw = b.raw
    /\ a.capability = b.capability
    /\ a.level = b.level
    /\ a.reset = b.reset
    /\ a.family = b.family

\* C1: begin(U) on a Primary buffer in Initial state followed by finish()
\* gives Executable with exactly U, and the raw handle, capability, level,
\* reset policy and family the buffer had before begin; begin is applicable to
\* every Primary buffer in Initial state and finish to what begin returns.
C1_BeginFinish ==
    /\ \A i \in Slots :
          (Live(i) /\ bufs[i].level = PrimaryLevel /\ bufs[i].state = InitialState)
             => \A u \in Usages : ENABLED Begin(i, u)
    /\ last.op = "begin" =>
          /\ ENABLED Finish(last.slot)
          /\ LastBuf.state = [tag |-> "Recording", inner |-> "-",
                              usage |-> LastTrack.usage]
    /\ last.op = "finish" =>
          /\ LastTrack.atBegin.relevant
          /\ LastTrack.atBegin.state = InitialState
          /\ LastTrack.atBegin.level = PrimaryLevel
          /\ LastTrack.usage \in Usages
          /\ LastBuf.state = [tag |-> "Executable", inner |-> "-",
                              usage |-> LastTrack.usage]
          /\ SameIdentity(LastBuf, LastTrack.atBegin)
          /\ LastBuf.relevant

C1_Witness ==
    /\ last.op = "finish"
    /\ LastTrack.usage = MultiShot(SimultaneousUse)
    /\ LastBuf.state.tag = "Executable"
    /\ LastBuf.reset = IndividualReset

\* C2: submit_once() on Executable(OneShot) gives Pending(Invalid), complete()
\* on that gives Invalid, and from submit_once on the buffer is not Executable
\* (and neither submit nor submit_once is applicable) until a reset to
\* Initial, then begin, then finish have happened.
C2_OneShot ==
    /\ last.op = "submit_once" =>
          /\ LastTrack.atSubmit.state =
                [tag |-> "Executable", inner |-> "-", usage |-> OneShot]
          /\ LastBuf.state =
                [tag |-> "Pending", inner |-> "Invalid", usage |-> NoUsage]
    /\ (last.op = "complete" /\ LastTrack.once = "submitted") =>
          LastBuf.state = InvalidState
    /\ \A i \in Slots :
          (Live(i) /\ track[i].once \in {"submitted", "reset", "begun"}) =>
             /\ bufs[i].state.tag # "Executable"
             /\ ~ENABLED SubmitOnce(i)
             /\ ~ENABLED Submit(i)
    /\ \A i \in Slots :
          /\ track[i].once = "reset" => bufs[i].state = InitialState
          /\ track[i].once = "begun" => bufs[i].state.tag = "Recording"

C2_Witness ==
    /\ last.op = "complete"
    /\ LastTrack.once = "submitted"
    /\ LastBuf.state = InvalidState

\* C3: submit() on Executable(MultiShot(S)) gives
\* Pending(Executable(MultiShot(S))), complete() gives back the buffer as it
\* was before the submit, and submit is applicable to it again.
C3_MultiShot ==
    /\ \A i \in Slots :
          (Live(i) /\ bufs[i].level = PrimaryLevel
                   /\ bufs[i].state.tag = "Executable"
                   /\ bufs[i].state.usage.kind = "MultiShot") => ENABLED Submit(i)
    /\ last.op = "submit" =>
          /\ LastTrack.atSubmit.state.tag = "Executable"
          /\ LastTrack.atSubmit.state.usage.kind = "MultiShot"
          /\ LastBuf.state = [tag |-> "Pending", inner |-> "Executable",
                              usage |-> LastTrack.atSubmit.state.usage]
    /\ (last.op = "complete" /\ LastTrack.atSubmit.state.usage.kind = "MultiShot")
          => /\ LastBuf = LastTrack.atSubmit
             /\ ENABLED Submit(last.slot)

\* a second submit after a submit/complete round trip, with no begin between
C3_Witness ==
    /\ last.op = "submit"
    /\ LastTrack.roundTrip
    /\ LastBuf.state.usage = MultiShot(SimultaneousUse)

\* C4: reset() is applicable exactly to the buffers whose reset policy is
\* Individual and whose state is Initial, Recording, Executable or Invalid;
\* every reset() step starts from such a buffer and gives Initial with the
\* same level and the Individual policy, so no buffer of the pool-only policy
\* is ever moved by reset().
C4_Reset ==
    [][/\ \A i \in Slots :
             Live(i) => (ENABLED Reset(i) <=>
                            /\ bufs[i].reset = IndividualReset
                            /\ bufs[i].state.tag \in ResettableTags)
       /\ \A i \in Slots :
             (last'.op = "reset" /\ last'.slot = i) =>
                /\ bufs[i].reset = IndividualReset
                /\ bufs[i].state.tag \in ResettableTags
                /\ bufs'[i].state = InitialState
                /\ bufs'[i].level = bufs[i].level
                /\ bufs'[i].reset = IndividualReset]_vars

\* a reset() of a one-shot buffer after its submission
C4_Witness ==
    /\ last.op = "reset"
    /\ LastTrack.once = "reset"
    /\ LastBuf.state = InitialState
    /\ LastBuf.reset = IndividualReset

\* C8: every Submit token made by submit_once() or submit() carries the native
\* handle the buffer was allocated with and the family of the pool it was
\* allocated from, and so does the buffer returned with it, which is Pending.
C8_SubmitIdentity ==
    last.op \in {"submit", "submit_once"} =>
       /\ LastTrack.alloc.raw \in 1..MaxHandles
       /\ LastTrack.alloc.family \in {q.family : q \in QueueFamilies}
       /\ last.submit.raw = LastTrack.alloc.raw
       /\ last.submit.family = LastTrack.alloc.family
       /\ LastBuf.raw = LastTrack.alloc.raw
       /\ LastBuf.family = LastTrack.alloc.family
       /\ LastBuf.state.tag = "Pending"

\* the family 2 scenario: a one-shot submission of the second handle allocated
C8_Witness ==
    /\ last.op = "submit_once"
    /\ last.submit = [raw |-> 2, family |-> 2]
    /\ LastBuf.state = [tag |-> "Pending", inner |-> "Invalid", usage |-> NoUsage]

\* C9: mark_reset() is applicable in every Resettable state under both reset
\* policies, gives Initial with level and reset policy unchanged, and issues
\* no native call.
C9_MarkResetAnyPolicy ==
    /\ \A i \in Slots :
          (Live(i) /\ bufs[i].state.tag \in ResettableTags
                   /\ bufs[i].reset \in {IndividualReset, NoIndividualReset})
             => ENABLED MarkReset(i)
    /\ last.op = "mark_reset" =>
          /\ LastBuf.state = InitialState
          /\ last.calls = <<>>

\* C10: none of reset, mark_reset, free_buffers, begin, finish, submit and
\* submit_once is applicable to a buffer in Pending state; complete() and
\* release() are the only steps that change it, and none leaves it Initial.
C10_Pending ==
    /\ [](\A i \in Slots :
             (Live(i) /\ bufs[i].state.tag = "Pending") =>
                /\ ~ENABLED Reset(i)
                /\ ~ENABLED MarkReset(i)
                /\ \A S \in SUBSET Slots : i \in S => ~ENABLED FreeBuffers(S)
                /\ \A u \in Usages : ~ENABLED Begin(i, u)
                /\ ~ENABLED Finish(i)
                /\ ~ENABLED Submit(i)
                /\ ~ENABLED SubmitOnce(i)
                /\ ENABLED Complete(i)
                /\ ENABLED Release(i))
    /\ [][\A i \in Slots :
             (bufs[i].state.tag = "Pending" /\ bufs'[i] # bufs[i]) =>
                /\ last'.op \in {"complete", "release"}
                /\ last'.slot = i
                /\ bufs'[i].state.tag # "Initial"]_vars

\* a multi-shot buffer was completed, submitted again and released from Pending
C10_Witness ==
    /\ last.op = "release"
    /\ ~Live(last.slot)
    /\ LastTrack = NoTrack
    /\ pool.relevant
    /\ device.fresh = MaxHandles

IsPrefix(a, b) == Len(a) <= Len(b) /\ \A k \in 1..Len(a) : a[k] = b[k]

\* C5: in every reset epoch the k-th acquire_buffer returns the handle at
\* position k of the retained sequence, the handle the k-th acquire returned
\* in the epochs before; no step, reset() included, removes or reorders a
\* retained handle.
C5_ReuseAfterReset ==
    /\ [](/\ Len(plog.epoch) <= Len(plog.ever)
          /\ Len(plog.ever) <= Len(opool.buffers)
          /\ \A k \in 1..Len(plog.epoch) :
                /\ plog.epoch[k] = opool.buffers[k]
                /\ plog.epoch[k] = plog.ever[k])
    /\ [][/\ IsPrefix(opool.buffers, opool.buffers')
          /\ last'.op = "OwningPool::reset" => opool'.buffers = opool.buffers]_vars

\* the second acquire after a reset that followed three acquires
C5_Witness ==
    /\ last.op = "OwningPool::acquire_buffer"
    /\ Len(plog.epoch) = 2
    /\ Len(plog.ever) = 3
    /\ LastBuf.raw = plog.ever[2]

\* C6: reserve(n) followed by n calls of acquire_buffer issues at most one
\* native allocate call in total.
C6_OneAllocation ==
    (plog.reserve.n >= 0 /\ plog.reserve.acquired = plog.reserve.n) =>
       plog.reserve.allocs <= 1

\* C7: a failed from_flags gives back the Pool or OwningPool it was given,
\* equal in every field, with no native call; a successful one changes the
\* capability only.
C7_Downcast ==
    [][/\ last'.op = "Pool::from_flags" =>
             /\ last'.calls = <<>>
             /\ ~last'.ok => pool' = pool
             /\ last'.ok =>
                   /\ pool' = [pool EXCEPT !.capability = pool'.capability]
                   /\ pool'.capability.ty \in CapabilityTypes
       /\ last'.op = "OwningPool::from_flags" =>
             /\ last'.calls = <<>>
             /\ ~last'.ok => opool' = opool
             /\ last'.ok =>
                   /\ opool' = [opool EXCEPT
                                  !.inner.capability = opool'.inner.capability]
                   /\ opool'.inner.capability.ty \in CapabilityTypes]_vars

\* a failed downcast of an OwningPool with retained handles and a moved cursor
C7_Witness ==
    /\ last.op = "OwningPool::from_flags"
    /\ ~last.ok
    /\ Len(opool.buffers) >= 2
    /\ opool.next >= 1
    /\ opool.inner.relevant

\* the device-side state of the handle a live buffer wraps
NativeState(b) == device.state[b.raw].state
TypedStates == {"Initial", "Recording", "Executable"}

\* C11: every begin(), finish() and reset() on an Individual-reset Primary
\* buffer whose typed state (Initial, Recording, Executable) equals the state
\* of its native handle leaves the two equal: the native handle is in the
\* state the typed state of the returned buffer names.
C11_TypedTracksNative ==
    [][\A i \in Slots :
          (/\ last'.op \in {"begin", "finish", "reset"}
           /\ last'.slot = i
           /\ bufs[i].reset = IndividualReset
           /\ bufs[i].level = PrimaryLevel
           /\ bufs[i].state.tag \in TypedStates
           /\ NativeState(bufs[i]) = bufs[i].state.tag)
             => NativeState(bufs[i])' = bufs'[i].state.tag]_vars

\* C12: a Submit token comes from submit_once() or submit() only; the buffer
\* it is made from is Primary and Executable, and a begin and then a finish
\* have acted on it since its allocation or its last reset; neither operation
\* is applicable to a buffer that is Initial, Recording, Pending or Invalid,
\* or of Secondary level.
C12_TokenFromExecutable ==
    /\ [](/\ last.submit # NoSubmit <=> last.op \in {"submit", "submit_once"}
          /\ \A i \in Slots :
                (Live(i) /\ (\/ bufs[i].state.tag \in
                                   {"Initial", "Recording", "Pending", "Invalid"}
                             \/ bufs[i].level = SecondaryLevel))
                   => ~ENABLED Submit(i) /\ ~ENABLED SubmitOnce(i))
    /\ [][\A i \in Slots :
             (last'.submit # NoSubmit /\ last'.slot = i) =>
                /\ bufs[i].state.tag = "Executable"
                /\ bufs[i].level = PrimaryLevel
                /\ track[i].phase = "finished"
                /\ last'.submit = SubmitOf(bufs[i])]_vars

\* a token made from the third handle allocated, under the pool-only policy
C12_Witness ==
    /\ last.op = "submit"
    /\ last.submit.raw = 3
    /\ LastTrack.phase = "finished"
    /\ LastBuf.reset = NoIndividualReset
    /\ LastBuf.state.tag = "Pending"

Max(a, b) == IF a >= b THEN a ELSE b

\* C13: after reserve(count) at least count retained handles lie at or beyond
\* the cursor; the retained sequence has grown by exactly
\* max(0, count - (length - cursor)) handles appended at its end, the handles
\* it had keep their positions and the cursor is unchanged; no step makes the
\* sequence shorter.
C13_Reserve ==
    [][/\ Len(opool'.buffers) >= Len(opool.buffers)
       /\ last'.op = "OwningPool::reserve" =>
             LET count == plog'.reserve.n
             IN  /\ count \in 0..MaxCount
                 /\ Len(opool'.buffers) - opool'.next >= count
                 /\ Len(opool'.buffers) =
                       Len(opool.buffers)
                          + Max(0, count - (Len(opool.buffers) - opool.next))
                 /\ IsPrefix(opool.buffers, opool'.buffers)
                 /\ opool'.next = opool.next]_vars

\* reserve(2) with one unused handle retained: a shortfall of one
C13_Witness ==
    /\ last.op = "OwningPool::reserve"
    /\ plog.reserve.n = 2
    /\ opool.next = 1
    /\ Len(opool.buffers) = 3
    /\ Len(last.calls) = 1
    /\ last.calls[1].count = 1

\* C14: OwningPool::reset() issues one native pool-wide reset, on the inner
\* pool's handle, and nothing else; it sets the cursor to 0 and changes no
\* other field: the retained handles, the level and the inner pool stay as
\* they were.
C14_OwningReset ==
    [][last'.op = "OwningPool::reset" =>
          /\ last'.calls = <<reset_command_pool(opool.inner.raw)>>
          /\ opool'.next = 0
          /\ opool'.buffers = opool.buffers
          /\ opool'.level = opool.level
          /\ opool'.inner = opool.inner
          /\ opool.inner.raw = 2]_vars

\* a reset with three handles retained, one of them acquired before it
C14_Witness ==
    /\ last.op = "OwningPool::reset"
    /\ opool.next = 0
    /\ Len(opool.buffers) = 3
    /\ Len(plog.ever) = 1
    /\ opool.level = SecondaryLevel

PoolCalls ==
    {"reset_command_pool", "free_command_buffers", "destroy_command_pool",
     "allocate_command_buffers"}

\* C15 as stated: OwningPool::dispose() issues the pool-wide reset, then one
\* batch free of every retained handle, then the pool destroy, in this order,
\* and discharges the pool's token.
C15_DisposeAlwaysFrees ==
    [][last'.op = "OwningPool::dispose" =>
          /\ last'.calls =
                <<reset_command_pool(opool.inner.raw),
                  free_command_buffers(opool.inner.raw, opool.buffers),
                  destroy_command_pool(opool.inner.raw)>>
          /\ ~opool'.inner.relevant]_vars

\* C15, amended: OwningPool::dispose() issues the pool-wide reset first and
\* the pool destroy last; between them, when handles are retained, one batch
\* free of the retained sequence, which holds every handle this pool has
\* allocated, each once, and no free when none is retained; the pool's token
\* is discharged, and no call on the pool is issued after the destroy.
C15_DisposeOrder ==
    [][/\ last'.op = "OwningPool::dispose" =>
             /\ last'.calls[1] = reset_command_pool(opool.inner.raw)
             /\ last'.calls[Len(last'.calls)] =
                   destroy_command_pool(opool.inner.raw)
             /\ opool.buffers # <<>> =>
                   /\ Len(last'.calls) = 3
                   /\ last'.calls[2] =
                         free_command_buffers(opool.inner.raw, opool.buffers)
             /\ opool.buffers = <<>> => Len(last'.calls) = 2
             /\ Len(opool.buffers) = device.fresh
             /\ \A h \in 1..device.fresh :
                   Cardinality({k \in 1..Len(opool.buffers) :
                                  opool.buffers[k] = h}) = 1
             /\ opool.inner.relevant
             /\ ~opool'.inner.relevant
       /\ ~opool.inner.relevant =>
             \A k \in 1..Len(last'.calls) : last'.calls[k].fn \notin PoolCalls]_vars

\* a dispose that frees three retained handles, the cursor having been at 1
C15_Witness ==
    /\ last.op = "OwningPool::dispose"
    /\ Len(last.calls) = 3
    /\ Len(last.calls[2].handles) = MaxHandles
    /\ Len(plog.epoch) = 1
    /\ ~opool.inner.relevant

\* the Buffer allocate_buffers makes of handle h at level l
Allocated(h, l) ==
    [raw |-> h, capability |-> pool.capability, state |-> InitialState,
     level |-> l, reset |-> pool.reset, family |-> pool.family,
     relevant |-> TRUE]

\* C16: allocate_buffers(level, count) issues one native allocation, for
\* count buffers of the given level from this pool, and returns one Buffer
\* per handle the call returned, in the order returned: Initial, of the level
\* requested, with the pool's capability, reset policy and family; the pool
\* keeps its fields.
C16_Allocate ==
    /\ [](pool.relevant =>
            \A l \in Levels, n \in 0..MaxCount :
               LET r == Pool_allocate_buffers(pool, device, l, n)
               IN  /\ Len(r.calls) = 1
                   /\ r.calls[1].fn = "allocate_command_buffers"
                   /\ r.calls[1].pool = pool.raw
                   /\ r.calls[1].count = n
                   /\ r.calls[1].level = Level_level(l)
                   /\ Len(r.buffers) = Len(r.calls[1].handles)
                   /\ \A k \in 1..Len(r.buffers) :
                         r.buffers[k] = Allocated(r.calls[1].handles[k], l))
    /\ [][last'.op = "Pool::allocate_buffers" =>
             LET call == last'.calls[1]
                 new == {i \in Slots : bufs'[i] # bufs[i]}
             IN  /\ Len(last'.calls) = 1
                 /\ call.pool = pool.raw
                 /\ call.count = Cardinality(new)
                 /\ call.count = Len(call.handles)
                 /\ \A k \in 1..Len(call.handles) :
                       \E i \in new, l \in Levels :
                          /\ Level_level(l) = call.level
                          /\ bufs[i] = NoBuf
                          /\ bufs'[i] = Allocated(call.handles[k], l)
                 /\ pool' = pool]_vars

\* a Secondary buffer of the Individual policy wrapping the third handle
C16_Witness ==
    /\ last.op = "Pool::allocate_buffers"
    /\ last.calls[1].level = "SECONDARY"
    /\ last.calls[1].handles[1] = 3
    /\ \E i \in Slots : /\ bufs[i].raw = 3
                         /\ bufs[i].level = SecondaryLevel
                         /\ bufs[i].reset = IndividualReset
                         /\ bufs[i].state = InitialState

\* C17: begin(usage) issues one native start-recording call, on the handle
\* the buffer was allocated with, with the one-time-submit flag alone for
\* OneShot, the simultaneous-use flag alone for MultiShot<SimultaneousUse>
\* and no flag for MultiShot<()>; finish() issues one native end-recording
\* call on the same handle.
C17_BeginFinishCalls ==
    /\ last.op = "begin" =>
          /\ Len(last.calls) = 1
          /\ last.calls[1].fn = "begin_command_buffer"
          /\ last.calls[1].buffer = LastTrack.alloc.raw
          /\ last.calls[1].buffer = LastBuf.raw
          /\ LastBuf.state.usage.kind = "OneShot" =>
                last.calls[1].flags = {"ONE_TIME_SUBMIT"}
          /\ (LastBuf.state.usage.kind = "MultiShot"
                /\ LastBuf.state.usage.sub = SimultaneousUse) =>
                last.calls[1].flags = {"SIMULTANEOUS_USE"}
          /\ (LastBuf.state.usage.kind = "MultiShot"
                /\ LastBuf.state.usage.sub # SimultaneousUse) =>
                last.calls[1].flags = {}
          /\ LastBuf.state.usage.kind \in {"OneShot", "MultiShot"}
    /\ last.op = "finish" =>
          /\ Len(last.calls) = 1
          /\ last.calls[1].fn = "end_command_buffer"
          /\ last.calls[1].buffer = LastTrack.atBegin.raw
          /\ last.calls[1].buffer = LastBuf.raw

\* begin(MultiShot<SimultaneousUse>) on the second handle allocated
C17_Witness ==
    /\ last.op = "begin"
    /\ LastBuf.raw = 2
    /\ LastBuf.state = RecordingState(MultiShot(SimultaneousUse))
    /\ last.calls[1].flags = {"SIMULTANEOUS_USE"}

\* C18: free_buffers, given a non-empty list of buffers in Resettable
\* states, issues one native batch free of exactly their handles and
\* discharges the token of every buffer of the list: none is dropped with
\* its token undischarged.
C18_FreeDischarges ==
    last.op = "Pool::free_buffers" =>
       /\ Len(last.calls) = 1
       /\ last.calls[1].fn = "free_command_buffers"
       /\ Len(last.calls[1].handles) = Len(last.dropped)
       /\ Len(last.dropped) >= 1
       /\ \A k \in 1..Len(last.dropped) : ~last.dropped[k]

\* C19: the cursor of an OwningPool lies between 0 and the length of the
\* retained sequence in every state; acquire_buffer moves it forward by one
\* and returns the handle at the position the cursor had, a position inside
\* the sequence; the number of buffers a native allocation asks for is never
\* negative.
C19_Cursor ==
    /\ [](/\ 0 <= opool.next
          /\ opool.next <= Len(opool.buffers))
    /\ [][/\ last'.op = "OwningPool::acquire_buffer" =>
                /\ opool'.next = opool.next + 1
                /\ opool.next + 1 \in 1..Len(opool'.buffers)
                /\ bufs'[last'.slot].raw = opool'.buffers[opool.next + 1]
                /\ bufs[last'.slot] = NoBuf
          /\ \A k \in 1..Len(last'.calls) :
                last'.calls[k].fn = "allocate_command_buffers" =>
                   /\ last'.calls[k].count >= 0
                   /\ last'.calls[k].count = Len(last'.calls[k].handles)]_vars

\* an acquire served from the handles a reserve had put beyond the cursor
C19_Witness ==
    /\ last.op = "OwningPool::acquire_buffer"
    /\ last.calls = <<>>
    /\ opool.next = 2
    /\ Len(opool.buffers) = 3
    /\ LastBuf.raw = opool.buffers[2]

\* C20: the handles acquire_buffer has returned since the last reset() (or
\* since the pool was made) are pairwise different; two live buffers wrap the
\* same handle only if one of them was still held when reset() was called.
C20_Exclusive ==
    /\ \A j, k \in 1..Len(plog.epoch) :
          j # k => plog.epoch[j] # plog.epoch[k]
    /\ \A i, j \in Slots :
          (i # j /\ Live(i) /\ Live(j) /\ bufs[i].raw = bufs[j].raw)
             => (i \in plog.stale \/ j \in plog.stale)
    /\ \A i \in Slots :
          (Live(i) /\ i \notin plog.stale)
             => \E k \in 1..Len(plog.epoch) : plog.epoch[k] = bufs[i].raw

\* two buffers held at once, acquired after a reset that followed three
\* acquires and their releases
C20_Witness ==
    /\ last.op = "OwningPool::acquire_buffer"
    /\ plog.stale = {}
    /\ Len(plog.epoch) = 2
    /\ Len(plog.ever) = 3
    /\ Cardinality({i \in Slots : Live(i)}) = 2
    /\ \A i, j \in Slots : (i # j) => bufs[i].raw # bufs[j].raw

\* the buffers one typed lifecycle operation (begin, finish, submit_once,
\* submit, complete, mark_reset) makes of buffer b
TypedSteps(b) ==
    (IF CanBegin(b) THEN {Buffer_begin(b, u).buffer : u \in Usages} ELSE {})
    \cup (IF CanFinish(b) THEN {Buffer_finish(b).buffer} ELSE {})
    \cup (IF CanSubmitOnce(b) THEN {Buffer_submit_once(b).buffer} ELSE {})
    \cup (IF CanSubmit(b) THEN {Buffer_submit(b).buffer} ELSE {})
    \cup (IF CanComplete(b) THEN {Buffer_complete(b)} ELSE {})
    \cup (IF CanMarkReset(b) THEN {Buffer_mark_reset(b)} ELSE {})

\* the buffers any number of typed lifecycle operations make of those in S
RECURSIVE TypedReach(_)
TypedReach(S) ==
    LET T == S \cup UNION {TypedSteps(b) : b \in S}
    IN  IF T = S THEN S ELSE TypedReach(T)

\* C21: from every state a buffer acquired from an OwningPool is in, of
\* either level, some sequence of typed lifecycle operations leads to a state
\* where release() is applicable; release() leaves no live buffer behind.
C21_Releasable ==
    /\ \A i \in Slots :
          Live(i) => \E b \in TypedReach({bufs[i]}) : CanRelease(b)
    /\ last.op = "release" => ~Live(last.slot)

====
